---- MODULE Spec2Model ----
(***************************************************************************)
(* CubicRegularizedNewton (OPTAMI/second_order/cubic_regularized_newton.py) *)
(*                                                                         *)
(* Numbers.  The code computes in floating point; the model computes       *)
(* exactly on rationals with fixed denominators:                           *)
(*   - gradient entries (c, df) are integers;                              *)
(*   - Hessian entries are integers in units of 1/MatDen;                  *)
(*   - the dual variable tau, step vectors x and parameters are integers   *)
(*     in units of 1/TauDen (the grid of the line search);                 *)
(*   - L is an integer; tolerances are fractions Num/Den.                  *)
(* A quotient that is not on the grid is truncated (Quot), a Euclidean     *)
(* norm that is not an integer is floored (ISqrt).                         *)
(***************************************************************************)
EXTENDS Integers, Sequences, FiniteSets, TLC

VARIABLES
    optimizers,  \* the CubicRegularizedNewton instances, in order of construction
    dicts,       \* the heap of lazy_args dict objects; dicts[DefaultArg] is the
                 \* object of the default argument value, made once at definition
    pc,          \* "idle", or "step" while a call of step is in its loop
    cur,         \* the running call of step: [inst, hess, g], g the group in turn
    raised,      \* the exception that ended the last call, or "none"
    ncalls,      \* calls of step started
    obs,         \* history of the run (not program state), see ObsInit
    ex,          \* one call of exact(): its arguments and its outcome
    it           \* one call of iterative(): arguments, loop position, trial vector

mainVars == <<optimizers, dicts, pc, cur, raised, ncalls, obs>>
vars == <<optimizers, dicts, pc, cur, raised, ncalls, obs, ex, it>>

-----------------------------------------------------------------------------
(* Units and bounds *)

TauDen == 2       \* grid of tau, x and parameters: 1/TauDen
MatDen == 10      \* Hessian entries: 1/MatDen
MaxTau == 8       \* the ray search stops doubling its bracket beyond MaxTau

(* Program constants *)
SymTolNum == 1    \* 0.1  = SymTolNum / SymTolDen
SymTolDen == 10
OptTolNum == 1    \* 0.01 = OptTolNum / OptTolDen
OptTolDen == 100
LeftPoint == 0    \* left_point = 0.
MiddlePoint == 2  \* middle_point = 2.

None == <<>>      \* Python's None where a matrix may stand

-----------------------------------------------------------------------------
(* Arithmetic helpers *)

Abs(n) == IF n < 0 THEN -n ELSE n

\* a / b truncated towards zero (b # 0)
Quot(a, b) == IF (a < 0) = (b < 0) THEN Abs(a) \div Abs(b) ELSE -(Abs(a) \div Abs(b))

RECURSIVE SumSeq(_)
SumSeq(s) == IF s = <<>> THEN 0 ELSE Head(s) + SumSeq(Tail(s))

RECURSIVE MaxSeq(_)
MaxSeq(s) == IF Len(s) = 1 THEN Head(s)
             ELSE LET m == MaxSeq(Tail(s)) IN IF Head(s) > m THEN Head(s) ELSE m

ISqrt(n) == CHOOSE k \in 0..n : k * k <= n /\ (k + 1) * (k + 1) > n

\* torch.Tensor.norm() of a vector
norm(v) == ISqrt(SumSeq([i \in 1..Len(v) |-> v[i] * v[i]]))

\* A.mv(x): entries of A in 1/MatDen, result in the unit of x over MatDen
mv(A, x) == [i \in 1..Len(A) |-> SumSeq([j \in 1..Len(x) |-> A[i][j] * x[j]])]

\* (A.t() - A) flattened to the sequence of its entries
AsymEntries(A) ==
    LET n == Len(A) IN
    [k \in 1..(n * n) |->
        LET i == ((k - 1) \div n) + 1
            j == ((k - 1) % n) + 1
        IN A[j][i] - A[i][j]]

\* a faulty variant: the tolerance itself is rejected (>= for >)
NotSymmetric_AtTolerance(A) == MaxSeq(AsymEntries(A)) * SymTolDen >= SymTolNum * MatDen

\* (A.t() - A).max() > 0.1
NotSymmetric(A) == MaxSeq(AsymEntries(A)) * SymTolDen > SymTolNum * MatDen

-----------------------------------------------------------------------------
(* torch.linalg.eigh(A): reads the lower triangle of A only and returns the *)
(* eigenvalues in ascending order with orthonormal eigenvectors as columns. *)
(* Modelled on matrices whose lower triangle is diagonal: the eigenvalues   *)
(* are the diagonal entries and the eigenvectors the unit vectors.          *)

LowerDiagonal(A) == \A i \in 1..Len(A) : \A j \in 1..(i - 1) : A[i][j] = 0

SortPerm(d) ==
    CHOOSE p \in [1..Len(d) -> 1..Len(d)] :
        /\ \A j, k \in 1..Len(d) : j # k => p[j] # p[k]
        /\ \A j, k \in 1..Len(d) :
              j < k => \/ d[p[j]] < d[p[k]]
                       \/ (d[p[j]] = d[p[k]] /\ p[j] < p[k])

eigh(A) ==
    LET n == Len(A)
        p == SortPerm([i \in 1..n |-> A[i][i]])
    IN [T |-> [j \in 1..n |-> A[p[j]][p[j]]],
        U |-> [i \in 1..n |-> [j \in 1..n |-> IF p[j] = i THEN 1 ELSE 0]]]

-----------------------------------------------------------------------------
(* The dual objective of exact().                                          *)
(* inv(T, L, tau)[i] = 1 / (T[i] + L/2*tau) = 2*TauDen*MatDen / InvDen.    *)

InvDen(Ti, L, t) == 2 * TauDen * Ti + MatDen * L * t

\* sum over i of ct[i]^2 * 12*TauDen^4*MatDen / InvDen(T[i]), a fraction
\* with positive denominator; entries with ct[i] = 0 contribute 0
RECURSIVE FracSum(_, _, _, _, _)
FracSum(T, ct, L, t, i) ==
    IF i = 0 THEN [num |-> 0, den |-> 1]
    ELSE LET r == FracSum(T, ct, L, t, i - 1)
             d == InvDen(T[i], L, t)
             K == 12 * TauDen * TauDen * TauDen * TauDen * MatDen * ct[i] * ct[i]
         IN IF ct[i] = 0 THEN r
            ELSE IF d > 0 THEN [num |-> r.num * d + K * r.den, den |-> r.den * d]
            ELSE [num |-> r.num * (-d) - K * r.den, den |-> r.den * (-d)]

\* dual(tau) * 12 * TauDen^3 as poly + frac, or not a number (0 * inf),
\* or +infinity (a reciprocal of zero times a positive square)
dual(T, ct, L, t) ==
    LET zero == {i \in 1..Len(T) : InvDen(T[i], L, t) = 0} IN
    IF \E i \in zero : ct[i] = 0 THEN [kind |-> "nan"]
    ELSE IF zero # {} THEN [kind |-> "inf"]
    ELSE [kind |-> "fin", poly |-> L * t * t * t, frac |-> FracSum(T, ct, L, t, Len(T))]

\* g1 < g2 as IEEE floating point compares (false when either is not a number)
Less(g1, g2) ==
    IF g1.kind = "nan" \/ g2.kind = "nan" THEN FALSE
    ELSE IF g1.kind = "inf" THEN FALSE
    ELSE IF g2.kind = "inf" THEN TRUE
    ELSE LET E == g1.frac.den * g2.frac.den
             N == g2.frac.num * g1.frac.den - g1.frac.num * g2.frac.den
         IN (g1.poly - g2.poly) <= ((N - 1) \div E)

-----------------------------------------------------------------------------
(* line_search.ray_line_search: minimise f on the ray from left_point.     *)
(* f is the table of values on the grid 0..MaxTau*TauDen.                  *)

MaxT == MaxTau * TauDen

\* narrow the bracket [l, r] until it is a grid step wide, return the best point
RECURSIVE segment_search(_, _, _)
segment_search(f, l, r) ==
    IF r - l <= 2
    THEN CHOOSE t \in l..r : \A u \in l..r : ~Less(f[u], f[t])
    ELSE LET w == (r - l) \div 3
             m1 == l + w
             m2 == r - w
         IN IF Less(f[m1], f[m2]) THEN segment_search(f, l, m2)
                                  ELSE segment_search(f, m1, r)

\* double the right endpoint while f keeps decreasing beyond it
RECURSIVE expand(_, _, _)
expand(f, l, m) ==
    LET r == 2 * m IN
    IF r > MaxT THEN <<l, m>>
    ELSE IF Less(f[r], f[m]) THEN expand(f, m, r)
    ELSE <<l, r>>

ray_line_search(f, left_point, middle_point) ==
    IF ~Less(f[middle_point], f[left_point])
    THEN segment_search(f, left_point, middle_point)
    ELSE LET b == expand(f, left_point, middle_point)
         IN segment_search(f, b[1], b[2])

-----------------------------------------------------------------------------
(* exact(params, closure, L, hess, delta, testing)                         *)
(* reply = [df, H]: what the closure's gradient and flat_hessian give at   *)
(* the current parameters.                                                 *)

\* numerators of c + L/2*||x||*x + A.mv(x) over 2*TauDen^2*MatDen
Residual(c, x, A, L) ==
    LET nx == norm(x)
        Ax == mv(A, x)
    IN [i \in 1..Len(c) |->
          2 * TauDen * TauDen * MatDen * c[i] + L * MatDen * nx * x[i] + 2 * TauDen * Ax[i]]

\* (c + L/2*||x||*x + A.mv(x)).abs().max() >= 0.01
NotOptimal(c, x, A, L) ==
    MaxSeq([i \in 1..Len(c) |-> Abs(Residual(c, x, A, L)[i])]) * OptTolDen
        >= OptTolNum * 2 * TauDen * TauDen * MatDen

Raise(msg) == [status |-> msg, x |-> <<>>, H |-> None]

\* a faulty variant: the Hessian is recomputed whatever is passed in
ExactHessian_Recompute(reply, hess) == reply.H

\* lines 85-88: the Hessian passed in, or flat_hessian's
ExactHessian(reply, hess) == IF hess # None THEN hess ELSE reply.H

\* lines 93-103: the checks on c and A ("ok" when they pass).  c is the
\* flattened gradient and A a flat Hessian, so lines 93-97 cannot fail.
Validate(c, A) ==
    IF Len(c) # Len(A) THEN "ValueError: same 1st dimension"
    ELSE IF NotSymmetric(A) THEN "ValueError: not symmetric"
    ELSE "ok"

\* line 106: ct = U.t().mv(c)
Rotate(U, c) == [j \in 1..Len(c) |-> SumSeq([i \in 1..Len(c) |-> U[i][j] * c[i]])]

\* lines 111-113: dual on the grid of tau
DualTable(T, ct, L) == [t \in 0..MaxT |-> dual(T, ct, L, t)]

\* lines 121-122: x = -U.mv(inv(T, L, tau_best).mul(ct)), in units of 1/TauDen
InvertMul(T, ct, L, tau_best) ==
    [j \in 1..Len(ct) |->
        Quot(ct[j] * 2 * TauDen * MatDen * TauDen, InvDen(T[j], L, tau_best))]

MinusUmv(U, v) == [i \in 1..Len(v) |-> -SumSeq([j \in 1..Len(v) |-> U[i][j] * v[j]])]

Reconstruct(T, U, ct, L, tau_best) == MinusUmv(U, InvertMul(T, ct, L, tau_best))

\* lines 124-127
Finish(c, x, A, L, testing) ==
    IF testing /\ NotOptimal(c, x, A, L)
    THEN Raise("ValueError: not optimal")
    ELSE [status |-> "ok", x |-> x, H |-> A]

\* lines 115-122 given the rotated gradient
SolveDual(c, A, T, U, ct, L, testing) ==
    Finish(c,
           Reconstruct(T, U, ct, L,
                       ray_line_search(DualTable(T, ct, L),
                                       LeftPoint * TauDen, MiddlePoint * TauDen)),
           A, L, testing)

\* lines 105-106 given the decomposition
Decomposed(c, A, TU, L, testing) ==
    SolveDual(c, A, TU.T, TU.U, Rotate(TU.U, c), L, testing)

\* lines 90-127 given the Hessian to work on
ExactOn(c, A, L, testing) ==
    IF Validate(c, A) # "ok" THEN Raise(Validate(c, A))
    ELSE Decomposed(c, A, eigh(A), L, testing)

exact(reply, L, hess, testing) ==
    ExactOn(reply.df, ExactHessian(reply, hess), L, testing)

-----------------------------------------------------------------------------
(* iterative(params, closure, L, subsolver, subsolver_args, max_iters,     *)
(* rel_acc).  The subsolver is torch.optim.SGD with subsolver_args =       *)
(* [lr |-> integer]; rel_acc is the fraction rel_acc[1] / rel_acc[2].      *)
(* reply = [df, H]: flat_hvp(closure, params, x) gives (H.mv(x), df).      *)

zeros_like(v) == [i \in 1..Len(v) |-> 0]

\* x.grad = df + Hx + x.mul(L * x.norm() / 2.), in units of 1/TauDen
SynthGrad(x, reply, L) ==
    LET Hx == mv(reply.H, x)
        nx == norm(x)
    IN [i \in 1..Len(x) |->
          TauDen * reply.df[i] + Quot(Hx[i], MatDen) + Quot(L * nx * x[i], 2 * TauDen)]

\* optimizer.step() of SGD(lr)
SubsolverStep(x, grad, subsolver_args) ==
    [i \in 1..Len(x) |-> x[i] - subsolver_args.lr * grad[i]]

\* x.grad.norm() < rel_acc * df.norm()
StopRule(grad, df, rel_acc) ==
    norm(grad) * rel_acc[2] < rel_acc[1] * norm(df) * TauDen

\* a faulty variant: the test is made before the update, so that the
\* vector returned on convergence misses its last update
IterPass_TestFirst(x, reply, L, subsolver_args, rel_acc) ==
    LET grad == SynthGrad(x, reply, L)
        stop == StopRule(grad, reply.df, rel_acc)
    IN [x |-> IF stop THEN x ELSE SubsolverStep(x, grad, subsolver_args),
        grad |-> grad,
        stop |-> stop]

\* one pass of the loop body, lines 136-151: the update, then the test
IterPass(x, reply, L, subsolver_args, rel_acc) ==
    LET grad == SynthGrad(x, reply, L)
    IN [x |-> SubsolverStep(x, grad, subsolver_args),
        grad |-> grad,
        stop |-> StopRule(grad, reply.df, rel_acc)]

RECURSIVE iter_loop(_, _, _, _, _, _, _)
iter_loop(x, k, reply, L, subsolver_args, max_iters, rel_acc) ==
    IF k >= max_iters THEN <<FALSE, x>>
    ELSE LET p == IterPass(x, reply, L, subsolver_args, rel_acc)
         IN IF p.stop THEN <<TRUE, p.x>>
            ELSE iter_loop(p.x, k + 1, reply, L, subsolver_args, max_iters, rel_acc)

iterative(reply, L, subsolver_args, max_iters, rel_acc) ==
    iter_loop(zeros_like(reply.df), 0, reply, L, subsolver_args, max_iters, rel_acc)

ExIdle == [status |-> "unused"]
ItIdle == [pc |-> "unused"]

-----------------------------------------------------------------------------
(* The optimizer: __init__ and step                                        *)

MaxInst == 1      \* optimizers constructed (one more in SpecInstances)
MaxCalls == 2     \* calls of step

DefaultArg == 1   \* dicts[DefaultArg]: the dict(step_per_update=1) of line 26

\* 1x1 and 2x2 Hessians: diagonal a, b (in units of 1), upper entry e (in 1/MatDen)
Diag1(a) == <<<<a * MatDen>>>>
Diag2(a, b, e) == <<<<a * MatDen, e>>, <<0, b * MatDen>>>>

\* a dict with key k set to v
SetKey(d, k, v) == [y \in DOMAIN d \cup {k} |-> IF y = k THEN v ELSE d[y]]

\* torch's Optimizer.add_param_group: param_group.setdefault(name, default)
\* for every default; a dict default is stored by reference
SetDefaults(group, defaults) ==
    [k \in DOMAIN group \cup DOMAIN defaults |->
        IF k \in DOMAIN group THEN group[k] ELSE defaults[k]]

\* lines 27-40 for L > 0: the new instance and the heap of dicts after it.
\* a.lazy_args = <<>> leaves the argument out, so that the function's one
\* default object is used; <<k>> passes a fresh dict(step_per_update=k).
NewDicts(ds, a) ==
    LET own == a.lazy_args # <<>>
        id == IF own THEN Len(ds) + 1 ELSE DefaultArg
        ds0 == IF own THEN Append(ds, [step_per_update |-> a.lazy_args[1]]) ELSE ds
    IN [ds0 EXCEPT ![id] = SetKey(SetKey(@, "cur_iter", 0), "cached_hess", 0)]

NewOptimizer(ds, a) ==
    LET id == IF a.lazy_args # <<>> THEN Len(ds) + 1 ELSE DefaultArg
        defaults == [L |-> a.L, subsolver |-> a.subsolver,
                     subsolver_args |-> a.subsolver_args,
                     max_iters |-> a.max_iters, rel_acc |-> a.rel_acc,
                     lazy_args |-> id]
    IN [param_groups |-> [k \in 1..Len(a.params) |-> SetDefaults(a.params[k], defaults)],
        defaults |-> defaults,
        testing |-> a.testing,
        hess |-> None,
        has_cached_hess |-> FALSE,     \* self.cached_hess is not set by __init__
        cached_hess |-> None]

\* a faulty variant: a missing self.cached_hess reads as None
Precalc_NoneWhenMissing(o, hess) ==
    [raised |-> "none",
     precalc |-> IF ~hess /\ o.has_cached_hess THEN o.cached_hess ELSE None]

\* lines 57-60: reading self.cached_hess before it was ever assigned raises
Precalc(o, hess) ==
    IF ~hess
    THEN IF o.has_cached_hess
         THEN [raised |-> "none", precalc |-> o.cached_hess]
         ELSE [raised |-> "AttributeError: cached_hess", precalc |-> None]
    ELSE [raised |-> "none", precalc |-> None]

\* line 63: x, self.cached_hess = exact(...); nothing is assigned when
\* exact raises
Unpack(o, r) ==
    IF r.status # "ok"
    THEN [raised |-> r.status, o |-> o, x |-> <<>>]
    ELSE [raised |-> "none",
          o |-> [o EXCEPT !.has_cached_hess = TRUE, !.cached_hess = r.H],
          x |-> r.x]

\* lines 62-70: the solver call (the message printed for an inaccurate
\* iterative solve changes no state)
Solve(o, group, precalc, reply) ==
    IF group.subsolver = "None"
    THEN Unpack(o, exact(reply, group.L, precalc, o.testing))
    ELSE [raised |-> "none", o |-> o,
          x |-> iterative(reply, group.L, group.subsolver_args,
                          group.max_iters, group.rel_acc)[2]]

\* lines 72-74: p.add_(x[i])
AddStep(params, x) == [i \in 1..Len(params) |-> params[i] + x[i]]

\* line 76: group['lazy_args']['cur_iter'] += 1
IncrCurIter(ds, id) == [ds EXCEPT ![id] = SetKey(@, "cur_iter", @["cur_iter"] + 1)]

\* a faulty variant: the counter is incremented on the way out of a failed
\* solve as well
AfterSolve_CountAlways(ds, g, group, s) ==
    IF s.raised # "none"
    THEN [raised |-> s.raised, o |-> s.o, ds |-> IncrCurIter(ds, group.lazy_args),
          x |-> <<>>]
    ELSE [raised |-> "none",
          o |-> [s.o EXCEPT !.param_groups[g] =
                   SetKey(@, "params", AddStep(group.params, s.x))],
          ds |-> IncrCurIter(ds, group.lazy_args),
          x |-> s.x]

\* lines 72-76 after the solver returned s, or the exception it raised
AfterSolve(ds, g, group, s) ==
    IF s.raised # "none"
    THEN [raised |-> s.raised, o |-> s.o, ds |-> ds, x |-> <<>>]
    ELSE [raised |-> "none",
          o |-> [s.o EXCEPT !.param_groups[g] =
                   SetKey(@, "params", AddStep(group.params, s.x))],
          ds |-> IncrCurIter(ds, group.lazy_args),
          x |-> s.x]

\* lines 61-76 given the outcome of lines 57-60
AfterPrecalc(o, ds, g, reply, pre) ==
    IF pre.raised # "none"
    THEN [raised |-> pre.raised, o |-> o, ds |-> ds, x |-> <<>>]
    ELSE AfterSolve(ds, g, o.param_groups[g],
                    Solve(o, o.param_groups[g], pre.precalc, reply))

\* lines 50-76: the loop body for group g; an exception leaves the state as
\* the statements before it made it
GroupBody(o, ds, g, hess, reply) == AfterPrecalc(o, ds, g, reply, Precalc(o, hess))

-----------------------------------------------------------------------------
(* Inputs *)

\* what the closure gives at the current parameters: gradient and Hessian.
\* With L = 2 the first of each pair has its dual minimiser on the grid
\* (tau = 1); the second differs in the Hessian alone, which is indefinite
\* (n = 1) or asymmetric (n = 2), so that a cached Hessian meets a gradient
\* it was drawn with.
RepliesFor(n) ==
    IF n = 1
    THEN {[df |-> <<2>>, H |-> Diag1(1)],
          [df |-> <<2>>, H |-> Diag1(-1)]}
    ELSE {[df |-> <<2, 0>>, H |-> Diag2(1, 1, 0)],
          [df |-> <<2, 0>>, H |-> Diag2(1, 1, 2)]}

\* constructor arguments; params holds one dict per parameter group
Args(params, L, subsolver, testing, lazy_args) ==
    [params |-> params, L |-> L, subsolver |-> subsolver,
     subsolver_args |-> [lr |-> 1], max_iters |-> 2, rel_acc |-> <<1, 2>>,
     testing |-> testing, lazy_args |-> lazy_args]

P1 == [params |-> <<0>>]
P2 == [params |-> <<0, 0>>]

CtorArgs ==
    {Args(<<P1>>, 2, "None", tst, <<>>) : tst \in BOOLEAN}
    \cup {Args(<<P2>>, 2, "None", FALSE, <<3>>),
          Args(<<P1, P1>>, 2, "None", FALSE, <<>>),
          Args(<<P1, P2>>, 2, "None", TRUE, <<>>),
          Args(<<[params |-> <<0>>, L |-> -2]>>, 2, "None", FALSE, <<3>>),
          Args(<<P1>>, 2, "SGD", FALSE, <<>>),
          Args(<<P1, [params |-> <<0>>, subsolver |-> "None"]>>, 2, "SGD", FALSE, <<>>),
          Args(<<P1>>, 0, "None", FALSE, <<>>),
          Args(<<P1>>, -2, "SGD", FALSE, <<3>>)}

-----------------------------------------------------------------------------
(* History of the run.  Per instance i:                                    *)
(*   fresh[i][g]      the Hessian flat_hessian last computed for group g   *)
(*   goodH[i]         the Hessian computed by the last completed call of   *)
(*                    step(hess=True) (None before)                        *)
(*   exactReturned[i] some call of exact() has returned for i              *)
(*   exactStep[i]     some call of step that took the exact path completed *)
(*   completed[i], failed[i], completedNoHess[i]  calls of step that       *)
(*                    returned, that raised, that returned with hess=False *)
(*   first[i]         "none", or how the first call of step was made:      *)
(*                    "hess" for hess=True, "cached" for hess=False        *)
(* handed: the last hand-over to a solver (A the Hessian exact() works on,  *)
(* now the Hessian at the current parameters, goodBefore the value of      *)
(* goodH[i] at the hand-over);  start: the parameters and counters of the  *)
(* running call's instance when it began;  applied: the steps the running  *)
(* (or last) call has added, group by group.                               *)

NoHanded == [solver |-> "none"]

ObsInit == [fresh |-> <<>>, goodH |-> <<>>, exactReturned |-> <<>>, exactStep |-> <<>>,
            completed |-> <<>>, failed |-> <<>>, completedNoHess |-> <<>>,
            first |-> <<>>, handed |-> NoHanded, start |-> <<>>, applied |-> <<>>]

CurIter(ds, group) == ds[group.lazy_args]["cur_iter"]

Snapshot(o, ds) ==
    [g \in 1..Len(o.param_groups) |->
        [params |-> o.param_groups[g].params, cur_iter |-> CurIter(ds, o.param_groups[g])]]

MainInit ==
    /\ optimizers = <<>>
    /\ dicts = <<[step_per_update |-> 1]>>
    /\ pc = "idle"
    /\ cur = [inst |-> 0, hess |-> TRUE, g |-> 0]
    /\ raised = "none"
    /\ ncalls = 0
    /\ obs = ObsInit

\* the optimizer part at rest, for the specifications of the solvers alone
MainIdle == MainInit

-----------------------------------------------------------------------------
(* Actions *)

\* CubicRegularizedNewton(params, L, subsolver, ..., lazy_args), while fewer
\* than n optimizers exist
ConstructWithin(a, n) ==
    /\ pc = "idle"
    /\ Len(optimizers) < n
    /\ IF a.L <= 0
       THEN /\ raised' = "ValueError: Invalid learning rate"
            /\ UNCHANGED <<optimizers, dicts, obs>>
       ELSE /\ raised' = "none"
            /\ optimizers' = Append(optimizers, NewOptimizer(dicts, a))
            /\ dicts' = NewDicts(dicts, a)
            /\ obs' = [obs EXCEPT
                         !.fresh = Append(@, [g \in 1..Len(a.params) |-> None]),
                         !.goodH = Append(@, None),
                         !.exactReturned = Append(@, FALSE),
                         !.exactStep = Append(@, FALSE),
                         !.completed = Append(@, 0),
                         !.failed = Append(@, 0),
                         !.completedNoHess = Append(@, 0),
                         !.first = Append(@, "none")]
    /\ UNCHANGED <<pc, cur, ncalls, ex, it>>

Construct(a) == ConstructWithin(a, MaxInst)

\* optimizers[i].step(closure, hess): entry, line 47
StepBegin(i, hess) ==
    /\ pc = "idle"
    /\ ncalls < MaxCalls
    /\ pc' = "step"
    /\ cur' = [inst |-> i, hess |-> hess, g |-> 1]
    /\ raised' = "none"
    /\ ncalls' = ncalls + 1
    /\ obs' = [obs EXCEPT !.start = Snapshot(optimizers[i], dicts),
                          !.applied = <<>>, !.handed = NoHanded,
                          !.first[i] = IF @ # "none" THEN @
                                       ELSE IF hess THEN "hess" ELSE "cached"]
    /\ UNCHANGED <<optimizers, dicts, ex, it>>

\* one pass of the loop of step, lines 49-76, and the return after the
\* last group
StepGroup ==
    /\ pc = "step"
    /\ LET i == cur.inst
           o == optimizers[i]
           g == cur.g
           group == o.param_groups[g]
           isExact == group.subsolver = "None"
       IN \E reply \in RepliesFor(Len(group.params)) :
          \E b \in {GroupBody(o, dicts, g, cur.hess, reply)} :
          \E pre \in {Precalc(o, cur.hess)} :
            LET ok == b.raised = "none"
                last == g = Len(o.param_groups)
                ran == pre.raised = "none"
                computed == ran /\ isExact /\ cur.hess
                fresh1 == IF computed THEN [obs.fresh EXCEPT ![i][g] = reply.H]
                          ELSE obs.fresh
            IN /\ optimizers' = [optimizers EXCEPT ![i] = b.o]
               /\ dicts' = b.ds
               /\ raised' = b.raised
               /\ pc' = IF ok /\ ~last THEN "step" ELSE "idle"
               /\ cur' = IF ok /\ ~last THEN [cur EXCEPT !.g = g + 1] ELSE cur
               /\ obs' = [obs EXCEPT
                    !.fresh = fresh1,
                    !.handed = IF ~ran THEN obs.handed
                               ELSE [solver |-> IF isExact THEN "exact" ELSE "iterative",
                                     inst |-> i, g |-> g, hess |-> cur.hess, L |-> group.L,
                                     A |-> IF isExact THEN ExactHessian(reply, pre.precalc)
                                           ELSE None,
                                     now |-> reply.H,
                                     goodBefore |-> obs.goodH[i]],
                    !.exactReturned[i] = @ \/ (ok /\ isExact),
                    !.applied = IF ok THEN Append(@, b.x) ELSE @,
                    !.failed[i] = IF ok THEN @ ELSE @ + 1,
                    !.completed[i] = IF ok /\ last THEN @ + 1 ELSE @,
                    !.completedNoHess[i] = IF ok /\ last /\ ~cur.hess THEN @ + 1 ELSE @,
                    !.exactStep[i] = @ \/ (ok /\ last /\
                          \E h \in 1..Len(o.param_groups) :
                              o.param_groups[h].subsolver = "None"),
                    !.goodH[i] = IF ok /\ last /\ cur.hess /\ isExact THEN fresh1[i][g] ELSE @]
    /\ UNCHANGED <<ncalls, ex, it>>

Next ==
    \/ \E a \in CtorArgs : Construct(a)
    \/ \E i \in 1..Len(optimizers), hess \in BOOLEAN : StepBegin(i, hess)
    \/ StepGroup

Init == MainInit /\ ex = ExIdle /\ it = ItIdle

Spec == Init /\ [][Next]_vars

\* the same process with one optimizer more
NextInstances ==
    \/ \E a \in CtorArgs : ConstructWithin(a, MaxInst + 1)
    \/ \E i \in 1..Len(optimizers), hess \in BOOLEAN : StepBegin(i, hess)
    \/ StepGroup

SpecInstances == Init /\ [][NextInstances]_vars

-----------------------------------------------------------------------------
(* SpecExact: exact() as a function of its arguments *)

\* gradient / Hessian pairs whose dual minimiser lies on the grid when the
\* Hessian is positive semidefinite, and indefinite Hessians
Replies1 ==
    {[df |-> <<c>>, H |-> Diag1(1)] : c \in {-6, -2, 0, 2, 6}}
    \cup {[df |-> <<c>>, H |-> Diag1(0)] : c \in {-4, -1, 1, 4}}
    \cup {[df |-> <<c>>, H |-> Diag1(2)] : c \in {-3, 0, 3}}
    \cup {[df |-> <<c>>, H |-> Diag1(-1)] : c \in {-2, -1, 1, 2}}

Replies2 ==
    {[df |-> <<c, 0>>, H |-> Diag2(1, 1, e)] : c \in {-2, 2}, e \in -2..2}
    \cup {[df |-> <<0, c>>, H |-> Diag2(2, 1, e)] : c \in {-2, 2}, e \in {-2, 0, 1}}
    \cup {[df |-> <<c, 0>>, H |-> Diag2(-1, 1, 0)] : c \in {1}}

Replies == Replies1 \cup Replies2

\* the Hessian at the current point when a cached one is passed in: exact()
\* must not read it
StaleHessians == {Diag1(3), Diag2(3, 3, 0)}

NotCalled == [status |-> "not called", x |-> <<>>, H |-> None]

\* arguments of exact(): a fresh Hessian (hess = None), or a cached one,
\* of the gradient's dimension or not
ExactArgs ==
    {[reply |-> r, L |-> 2, hess |-> None, testing |-> tst, res |-> NotCalled] :
        r \in Replies, tst \in BOOLEAN}
    \cup {[reply |-> [df |-> r.df, H |-> s], L |-> 2, hess |-> r.H,
           testing |-> tst, res |-> NotCalled] :
        r \in Replies, s \in StaleHessians, tst \in BOOLEAN}

InitExact ==
    /\ ex \in ExactArgs
    /\ it = ItIdle
    /\ MainIdle

ExactCall ==
    /\ ex.res = NotCalled
    /\ ex' = [ex EXCEPT !.res = exact(ex.reply, ex.L, ex.hess, ex.testing)]
    /\ UNCHANGED <<it, mainVars>>

NextExact == ExactCall

SpecExact == InitExact /\ [][NextExact]_vars

\* the matrix exact() works on
ExA == IF ex.hess # None THEN ex.hess ELSE ex.reply.H

Symmetric(A) == \A i, j \in 1..Len(A) : A[i][j] = A[j][i]

-----------------------------------------------------------------------------
(* SpecIter: iterative() pass by pass.                                     *)
(* it.pc: "call" (not entered), "loop", "Converged", "Exhausted".          *)
(* it.evals counts the oracle evaluations (flat_hvp), it.passes records    *)
(* the synthetic gradient of every pass.                                   *)

MaxIters == 3     \* largest max_iters drawn

IterReplies ==
    {[df |-> <<c>>, H |-> Diag1(a)] :
        c \in {-2, 0, 1}, a \in {-1, 0, 1}}
    \cup {[df |-> <<c, 0>>, H |-> Diag2(a, 1, 0)] : c \in {-1, 2}, a \in {-1}}

RelAccs == {<<1, 10>>, <<1, 2>>, <<2, 1>>}

InitIter ==
    /\ it \in [pc : {"call"}, reply : IterReplies, L : {2}, subsolver_args : {[lr |-> 1]},
               max_iters : 0..MaxIters, rel_acc : RelAccs,
               x : {<<>>}, k : {0}, evals : {0}, passes : {<<>>}, res : {<<>>}]
    /\ ex = ExIdle
    /\ MainIdle

\* lines 131-133: the trial vector starts at zero
IterStart ==
    /\ it.pc = "call"
    /\ it' = [it EXCEPT !.pc = "loop", !.x = zeros_like(it.reply.df)]
    /\ UNCHANGED <<ex, mainVars>>

\* lines 135-151: one pass; returns (True, x) when the stopping rule holds
GradientStep ==
    /\ it.pc = "loop"
    /\ it.k < it.max_iters
    /\ LET p == IterPass(it.x, it.reply, it.L, it.subsolver_args, it.rel_acc)
       IN it' = [it EXCEPT !.x = p.x,
                           !.k = it.k + 1,
                           !.evals = it.evals + 1,
                           !.passes = Append(it.passes, p.grad),
                           !.pc = IF p.stop THEN "Converged" ELSE "loop",
                           !.res = IF p.stop THEN <<TRUE, p.x>> ELSE <<>>]
    /\ UNCHANGED <<ex, mainVars>>

\* line 153: the loop ran out
Exhaust ==
    /\ it.pc = "loop"
    /\ it.k >= it.max_iters
    /\ it' = [it EXCEPT !.pc = "Exhausted", !.res = <<FALSE, it.x>>]
    /\ UNCHANGED <<ex, mainVars>>

NextIter == IterStart \/ GradientStep \/ Exhaust

SpecIter == InitIter /\ [][NextIter]_vars

\* the loop is sequential code: it runs on until it returns
FairSpecIter == SpecIter /\ WF_vars(NextIter)

-----------------------------------------------------------------------------
(* Properties of exact(), under SpecExact *)

ExCalled == ex.res # NotCalled

ExShapesMatch == Len(ex.reply.df) = Len(ExA)

\* max over i, j of |A[j][i] - A[i][j]| > 0.1
AbsAsymmetryAboveTol(A) ==
    \E i, j \in 1..Len(A) : Abs(A[j][i] - A[i][j]) * SymTolDen > SymTolNum * MatDen

\* C6: for a matrix whose shape matches the gradient, exact() fails with
\* 'not symmetric' if and only if the largest absolute asymmetry exceeds
\* 0.1, for a freshly computed Hessian and for a cached one alike.
C6_SymmetryCheck ==
    (ExCalled /\ ExShapesMatch) =>
        ((ex.res.status = "ValueError: not symmetric") <=> AbsAsymmetryAboveTol(ExA))

\* a cached Hessian with asymmetry above the tolerance has been rejected
C6_Witness ==
    /\ ExCalled /\ ExShapesMatch
    /\ ex.hess # None
    /\ AbsAsymmetryAboveTol(ExA)
    /\ ex.res.status = "ValueError: not symmetric"

\* C8: for any symmetric A (indefinite and singular included), any c and
\* L > 0, exact() returns a step whose stationarity residual is below 0.01,
\* and so never raises 'obtained x is not optimal'.
C8_Stationary ==
    (ExCalled /\ ExShapesMatch /\ Symmetric(ExA) /\ ex.L > 0) =>
        /\ ex.res.status # "ValueError: not optimal"
        /\ ex.res.status = "ok" => ~NotOptimal(ex.reply.df, ex.res.x, ExA, ex.L)

-----------------------------------------------------------------------------
(* Properties of iterative(), under FairSpecIter *)

\* the trial vector after n updates from zero, by the recurrence of line 147
\* and the subsolver's update
RECURSIVE TrialAfter(_, _)
TrialAfter(r, n) ==
    IF n = 0 THEN zeros_like(r.reply.df)
    ELSE LET x == TrialAfter(r, n - 1)
             g == SynthGrad(x, r.reply, r.L)
         IN [i \in 1..Len(x) |-> x[i] - r.subsolver_args.lr * g[i]]

\* the synthetic gradient of iteration n satisfies the stopping rule
Satisfied(r, n) ==
    StopRule(SynthGrad(TrialAfter(r, n - 1), r.reply, r.L), r.reply.df, r.rel_acc)

IterDone == it.pc \in {"Converged", "Exhausted"}

IterSafety ==
    /\ it.pc \in {"call", "loop", "Converged", "Exhausted"}
    /\ it.evals = it.k /\ it.k <= it.max_iters
    /\ it.pc = "call" => it.k = 0
    /\ it.pc = "loop" =>
          /\ it.x = TrialAfter(it, it.k)
          /\ \A n \in 1..it.k : ~Satisfied(it, n)
    /\ it.pc = "Converged" =>
          /\ it.k >= 1
          /\ Satisfied(it, it.k)
          /\ \A n \in 1..(it.k - 1) : ~Satisfied(it, n)
          /\ it.res = <<TRUE, TrialAfter(it, it.k)>>
    /\ it.pc = "Exhausted" =>
          /\ it.k = it.max_iters
          /\ \A n \in 1..it.max_iters : ~Satisfied(it, n)
          /\ it.res = <<FALSE, TrialAfter(it, it.max_iters)>>
          /\ it.max_iters = 0 => it.res = <<FALSE, zeros_like(it.reply.df)>>
    /\ IterDone => it.res = iterative(it.reply, it.L, it.subsolver_args,
                                      it.max_iters, it.rel_acc)

\* C5: iterative() goes Init(x=0) -> GradientStep* -> Converged | Exhausted
\* and always terminates: it returns (True, x) right after the first
\* iteration whose synthetic gradient satisfies the stopping rule, with no
\* further update, and otherwise (False, x) after exactly max_iters updates;
\* with max_iters = 0 it returns (False, zeros) without any oracle
\* evaluation or update.
C5_IterativeStateMachine ==
    /\ []IterSafety
    /\ [][~IterDone]_vars
    /\ <>IterDone

\* convergence at the second iteration, before max_iters is used up
C5_Witness ==
    /\ it.pc = "Converged"
    /\ it.k = 2
    /\ it.k < it.max_iters

-----------------------------------------------------------------------------
(* Properties of the optimizer, under Spec (C4 under SpecInstances) *)

Instances == 1..Len(optimizers)

Groups(i) == 1..Len(optimizers[i].param_groups)

SingleExact(i) ==
    /\ Len(optimizers[i].param_groups) = 1
    /\ optimizers[i].param_groups[1].subsolver = "None"

MultiExact(i) ==
    /\ Len(optimizers[i].param_groups) >= 2
    /\ \A g \in Groups(i) : optimizers[i].param_groups[g].subsolver = "None"

AllSubsolver(i) == \A g \in Groups(i) : optimizers[i].param_groups[g].subsolver # "None"

\* the Hessian instance i stores (None while the attribute does not exist)
Stored(i) == IF optimizers[i].has_cached_hess THEN optimizers[i].cached_hess ELSE None

\* the last hand-over was of a cached Hessian to exact()
CachedHandOver == obs.handed.solver = "exact" /\ ~obs.handed.hess

ExactErrors == {"ValueError: same 1st dimension", "ValueError: not symmetric",
                "ValueError: not optimal"}

\* C1 (as stated): for a single-group optimizer with no subsolver whose
\* first call had hess=True, every step(hess=False) solves with the Hessian
\* computed by the most recent step(hess=True), and after every call the
\* stored Hessian is the one computed by the most recent step(hess=True).
C1_MostRecentComputed ==
    /\ \A i \in Instances :
          (SingleExact(i) /\ obs.first[i] = "hess" /\ pc = "idle") =>
              Stored(i) = obs.fresh[i][1]
    /\ (CachedHandOver /\ SingleExact(obs.handed.inst)
          /\ obs.first[obs.handed.inst] = "hess") =>
              obs.handed.A = obs.fresh[obs.handed.inst][1]

\* C1 (amended): for a single-group optimizer with no subsolver, every
\* step(hess=False) that reaches the solver solves with the Hessian computed
\* by the most recent step(hess=True) that completed, and after every call
\* the stored Hessian is that one (none is stored before the first such call).
C1_MostRecentCompleted ==
    /\ \A i \in Instances :
          (SingleExact(i) /\ pc = "idle") => Stored(i) = obs.goodH[i]
    /\ (CachedHandOver /\ SingleExact(obs.handed.inst)) =>
          /\ obs.handed.goodBefore # None
          /\ obs.handed.A = obs.handed.goodBefore

\* a completed step(hess=False) solved with the cached Hessian while the
\* Hessian at the current parameters was another
C1_Witness ==
    /\ pc = "idle" /\ raised = "none"
    /\ CachedHandOver /\ SingleExact(obs.handed.inst)
    /\ obs.handed.now # obs.handed.A

\* instance i shares its lazy_args dict with no other instance
OwnDict(i) ==
    \A j \in Instances \ {i} :
        optimizers[j].defaults.lazy_args # optimizers[i].defaults.lazy_args

\* C2: after k completed calls of step (none failed) every group's counter
\* lazy_args['cur_iter'] equals k, whatever the number of groups.
C2_PerGroupCounter ==
    pc = "idle" =>
        \A i \in Instances :
            (obs.failed[i] = 0 /\ OwnDict(i)) =>
                \A g \in Groups(i) :
                    CurIter(dicts, optimizers[i].param_groups[g]) = obs.completed[i]

\* C3: in an optimizer with two or more groups and no subsolver,
\* step(hess=False) solves each group with the Hessian last computed for
\* that same group.
C3_OwnHessian ==
    (CachedHandOver /\ MultiExact(obs.handed.inst)) =>
        obs.handed.A = obs.fresh[obs.handed.inst][obs.handed.g]

\* step counters, lazy-Hessian settings and cached Hessian of instance i
View(i) ==
    [counters |-> [g \in Groups(i) |-> CurIter(dicts, optimizers[i].param_groups[g])],
     settings |-> [g \in Groups(i) |->
                     dicts[optimizers[i].param_groups[g].lazy_args]["step_per_update"]],
     cached |-> Stored(i)]

\* C4: constructing another optimizer, or a step of another optimizer,
\* leaves the counters, settings and cached Hessian of instance i unchanged.
C4_NoInterference ==
    [][\A i \in Instances :
          (Len(optimizers') > Len(optimizers) \/ (pc = "step" /\ cur.inst # i))
              => View(i)' = View(i)]_vars

\* C7: every constructed optimizer has L > 0, and the L handed to the exact
\* or the iterative solver is positive for every group.
C7_PositiveL ==
    /\ \A i \in Instances : optimizers[i].defaults.L > 0
    /\ obs.handed.solver # "none" => obs.handed.L > 0

\* the groups before the one in turn have their step applied and counted
EarlierKept ==
    LET o == optimizers[cur.inst] IN
    \A h \in 1..(cur.g - 1) :
        /\ o.param_groups[h].params = AddStep(obs.start[h].params, obs.applied[h])
        /\ CurIter(dicts, o.param_groups[h]) =
              obs.start[h].cur_iter
              + Cardinality({k \in 1..(cur.g - 1) :
                    o.param_groups[k].lazy_args = o.param_groups[h].lazy_args})

\* C9: a pass of step that fails inside exact() changes neither parameters,
\* counters nor the stored Hessian, and ends the call with the error; the
\* groups processed before keep their applied step and incremented counter.
C9_FailedGroupUntouched ==
    [][(pc = "step" /\ raised' \in ExactErrors) =>
          /\ optimizers' = optimizers
          /\ dicts' = dicts
          /\ pc' = "idle"
          /\ EarlierKept']_vars

\* the second group failed in exact() after the first had moved
C9_Witness ==
    /\ pc = "idle" /\ raised \in ExactErrors
    /\ cur.g = 2
    /\ obs.applied[1] # zeros_like(obs.applied[1])
    /\ EarlierKept

\* the pass fails on reading the missing attribute: no solver runs, nothing
\* changes
FailsBeforeSolver ==
    /\ raised' = "AttributeError: cached_hess"
    /\ pc' = "idle"
    /\ optimizers' = optimizers
    /\ dicts' = dicts
    /\ obs'.handed = NoHanded

\* C10 (as stated): step(hess=False) on an optimizer on which no exact-path
\* step has completed fails before any solver runs and changes nothing; on
\* an optimizer constructed with a subsolver step(hess=False) never succeeds.
C10_NoCompletedExactStep ==
    /\ [][(pc = "step" /\ ~cur.hess /\ ~obs.exactStep[cur.inst])
            => FailsBeforeSolver]_vars
    /\ [](\A i \in Instances :
            optimizers[i].defaults.subsolver # "None" => obs.completedNoHess[i] = 0)

\* C10 (amended): step(hess=False) on an optimizer for which exact() has
\* never returned fails before any solver runs and changes nothing; on an
\* optimizer all of whose groups use a subsolver step(hess=False) never
\* succeeds.
C10_NoExactReturned ==
    /\ [][(pc = "step" /\ ~cur.hess /\ ~obs.exactReturned[cur.inst])
            => FailsBeforeSolver]_vars
    /\ [](\A i \in Instances : AllSubsolver(i) => obs.completedNoHess[i] = 0)

\* step(hess=False) failed on a subsolver optimizer that had completed a step
C10_Witness ==
    /\ pc = "idle" /\ raised = "AttributeError: cached_hess"
    /\ AllSubsolver(cur.inst)
    /\ obs.completed[cur.inst] >= 1

====
